---- MODULE Spec2Model ----
(***************************************************************************)
(* A model of the SF roofing-leads generator: the key normalizer, the      *)
(* paging client, deduplication, the lead filter, the enrichment client    *)
(* and the pipeline orchestrator.                                          *)
(*                                                                         *)
(* Python strings whose characters matter (block, lot, block_lot, exception*)
(* texts, status codes) are sequences of one-character strings; the value  *)
(* None is the one-element sequence <<"None">>, which is no such string.   *)
(***************************************************************************)
EXTENDS Integers, Sequences, FiniteSets, TLC

VARIABLES
    \* format_block_lot called on its own
    f_block, f_lot, f_ret, f_pc,
    \* deduplicate_by_key called on its own
    d_records, d_result, d_again, d_pc,
    \* DataSFClient._fetch_paginated: the server's records matching the query,
    \* the limit argument, the loop's locals, the offsets requested so far,
    \* and the value returned
    p_source, p_limit, offset, all_records, p_requested, p_pc, p_ret,
    \* BatchDataClient._extract_contacts called on one lookup result
    x_person, x_ret, x_pc,
    \* skip_trace_batch: the client class, whether an API key is configured,
    \* the argument, the index of the batch being handled, the list built,
    \* the batches requested so far with the answer each got and the records
    \* each appended, and the value returned
    b_client, api_key, b_properties, b_i, enriched, b_requests, b_pc, b_ret,
    \* main and run_pipeline: the two data sets of the open-data server, the
    \* arguments, the locals, where the run is, the calls made so far, the
    \* list returned, main's exit code and the CSV files written
    taxRolls, permitsDb, limit, skip_enrichment, pc, properties, roof_permits,
    leads, calls, ret, exit_code, csv

fmtVars == <<f_block, f_lot, f_ret, f_pc>>
dedupVars == <<d_records, d_result, d_again, d_pc>>
fetchVars == <<p_source, p_limit, offset, all_records, p_requested, p_pc, p_ret>>
extractVars == <<x_person, x_ret, x_pc>>
batchVars == <<b_client, api_key, b_properties, b_i, enriched, b_requests, b_pc, b_ret>>
pipeVars == <<taxRolls, permitsDb, limit, skip_enrichment, pc, properties,
              roof_permits, leads, calls, ret, exit_code, csv>>
vars == <<fmtVars, dedupVars, fetchVars, extractVars, batchVars, pipeVars>>

(***************************************************************************)
(* Bounds of the model.                                                    *)
(***************************************************************************)
MaxStrLen == 4
MaxDedupLen == 4
MaxSource == 5
MaxLimit == 3
\* Stands for DEFAULT_PAGE_SIZE (50000 in src/src/config.py), scaled down.
PageSize == 2
MaxPhones == 3
MaxLeads == 3
MaxProps == 3
MaxPermits == 2
\* Stands for batch_size (100 in src/src/skip_trace_client.py), scaled down.
BatchSize == 2

(***************************************************************************)
(* Python values.                                                          *)
(***************************************************************************)
None == <<"None">>

\* Python truthiness of an optional string: None and "" are falsy.
Falsy(s) == s = None \/ s = <<>>

SeqsUpTo(S, n) == UNION {[1..k -> S] : k \in 0..n}

Take(s, n) == SubSeq(s, 1, IF Len(s) < n THEN Len(s) ELSE n)

Range(s) == {s[i] : i \in 1..Len(s)}

Max(a, b) == IF a >= b THEN a ELSE b
Min(a, b) == IF a <= b THEN a ELSE b

Digits == {"0", "1", "2", "3", "4", "5", "6", "7", "8", "9"}

(***************************************************************************)
(* src/src/utils.py                                                        *)
(***************************************************************************)
BlockWidth == 4
LotWidth == 3

Zeros(n) == [i \in 1..n |-> "0"]

\* str.zfill: a string already as long as the width is returned unchanged; the
\* zeros go after a leading sign.
zfill(s, width) ==
    IF Len(s) >= width THEN s
    ELSE IF Len(s) > 0 /\ s[1] \in {"+", "-"}
         THEN <<s[1]>> \o Zeros(width - Len(s)) \o Tail(s)
         ELSE Zeros(width - Len(s)) \o s

format_block_lot_short(block, lot) ==
    IF Falsy(block) \/ Falsy(lot) THEN <<>>
    ELSE zfill(block, BlockWidth - 1) \o <<"-">> \o zfill(lot, LotWidth)

format_block_lot(block, lot) ==
    IF Falsy(block) \/ Falsy(lot) THEN <<>>
    ELSE zfill(block, BlockWidth) \o <<"-">> \o zfill(lot, LotWidth)

RECURSIVE dedup_loop(_, _, _, _)
dedup_loop(records, key, seen, result) ==
    IF records = <<>> THEN result
    ELSE LET record == Head(records)
             key_value == record[key]
         IN  IF ~Falsy(key_value) /\ key_value \notin seen
             THEN dedup_loop(Tail(records), key, seen \cup {key_value},
                             Append(result, record))
             ELSE dedup_loop(Tail(records), key, seen, result)

RECURSIVE dedup_keep_last(_, _)
dedup_keep_last(records, key) ==
    IF records = <<>> THEN <<>>
    ELSE LET record == Head(records)
             rest == dedup_keep_last(Tail(records), key)
         IN  IF ~Falsy(record[key])
                /\ \A i \in 1..Len(rest) : rest[i][key] # record[key]
             THEN <<record>> \o rest
             ELSE rest

deduplicate_by_key(records, key) == dedup_loop(records, key, {}, <<>>)

chunk_list(lst, chunk_size) ==
    [c \in 1..((Len(lst) + chunk_size - 1) \div chunk_size) |->
        SubSeq(lst, (c - 1) * chunk_size + 1,
               IF c * chunk_size < Len(lst) THEN c * chunk_size ELSE Len(lst))]

(***************************************************************************)
(* format_block_lot on every block and lot up to MaxStrLen characters.     *)
(***************************************************************************)
FmtChars == {"7", "A", "-"}
FmtInputs == {None} \cup SeqsUpTo(FmtChars, MaxStrLen)

FmtInit ==
    /\ f_block \in FmtInputs
    /\ f_lot \in FmtInputs
    /\ f_ret = None
    /\ f_pc = "call"

FmtCall ==
    /\ f_pc = "call"
    /\ f_ret' = format_block_lot(f_block, f_lot)
    /\ f_pc' = "returned"
    /\ UNCHANGED <<f_block, f_lot>>

FmtIdle == f_block = None /\ f_lot = None /\ f_ret = None /\ f_pc = "idle"

(***************************************************************************)
(* deduplicate_by_key on every list of up to MaxDedupLen records, and then *)
(* on its own result.                                                      *)
(***************************************************************************)
DedupKeys == {None, <<>>, <<"a">>, <<"b">>}
DedupRecords == [block_lot : DedupKeys, tag : {"x", "y"}]

DedupInit ==
    /\ d_records \in SeqsUpTo(DedupRecords, MaxDedupLen)
    /\ d_result = <<>>
    /\ d_again = <<>>
    /\ d_pc = "call"

DedupCall ==
    /\ d_pc = "call"
    /\ d_result' = deduplicate_by_key(d_records, "block_lot")
    /\ d_pc' = "again"
    /\ UNCHANGED <<d_records, d_again>>

DedupAgain ==
    /\ d_pc = "again"
    /\ d_again' = deduplicate_by_key(d_result, "block_lot")
    /\ d_pc' = "returned"
    /\ UNCHANGED <<d_records, d_result>>

DedupIdle == d_records = <<>> /\ d_result = <<>> /\ d_again = <<>> /\ d_pc = "idle"

(***************************************************************************)
(* src/src/datasf_client.py: _fetch_paginated, one action per page request. *)
(***************************************************************************)
\* limit: int | None. None is <<>>, the integer n is <<n>>.
NoLimit == <<>>

\* "if limit": None and 0 are falsy.
LimitGiven(lim) == lim # NoLimit /\ lim[1] # 0

LimitReached_After(lim, n) == LimitGiven(lim) /\ n > lim[1]

\* "if limit and len(all_records) >= limit"
LimitReached(lim, n) == LimitGiven(lim) /\ n >= lim[1]

\* The server's answer to $limit=page_size, $offset=off.
PageOf(source, off) ==
    SubSeq(source, off + 1, Min(off + PageSize, Len(source)))

\* No status raises.
IsSuccess_Always(status) == TRUE

\* httpx Response.raise_for_status raises unless the status is 2xx.
IsSuccess(status) == status \div 100 = 2

PageStatuses == {200, 503}

RawRecord(block, lot, location) ==
    [block |-> block, lot |-> lot, property_location |-> location,
     use_definition |-> "Single family dwelling", year_property_built |-> "1950"]

\* What the tax rolls may hold: three parcels and a record without a lot.
TaxRollRecords ==
    { RawRecord(<<"1">>, <<"1">>, "1 A ST"),
      RawRecord(<<"2">>, <<"2">>, "2 B ST"),
      RawRecord(<<"3">>, <<"3">>, "3 C ST"),
      RawRecord(<<"4">>, None, "4 D ST") }

FetchStart(source, lim) ==
    /\ p_source' = source
    /\ p_limit' = lim
    /\ offset' = 0
    /\ all_records' = <<>>
    /\ p_requested' = <<>>
    /\ p_pc' = "request"
    /\ p_ret' = <<>>

\* One pass of the while loop: the GET, raise_for_status, and the three exits.
FetchPage ==
    /\ p_pc = "request"
    /\ \E status \in PageStatuses :
      /\ p_requested' = Append(p_requested, [offset |-> offset, status |-> status])
      /\ IF ~IsSuccess(status)
        THEN /\ p_pc' = "raised"
             /\ UNCHANGED <<offset, all_records, p_ret>>
        ELSE LET records == PageOf(p_source, offset)
                 extended == all_records \o records
             IN  IF records = <<>>
                 THEN /\ p_pc' = "returned"
                      /\ p_ret' = all_records
                      /\ UNCHANGED <<offset, all_records>>
                 ELSE IF LimitReached(p_limit, Len(extended))
                 THEN /\ all_records' = SubSeq(extended, 1, p_limit[1])
                      /\ p_pc' = "returned"
                      /\ p_ret' = all_records'
                      /\ UNCHANGED offset
                 ELSE IF Len(records) < PageSize
                 THEN /\ all_records' = extended
                      /\ p_pc' = "returned"
                      /\ p_ret' = extended
                      /\ UNCHANGED offset
                 ELSE /\ all_records' = extended
                      /\ offset' = offset + PageSize
                      /\ UNCHANGED <<p_pc, p_ret>>
    /\ UNCHANGED <<p_source, p_limit>>

FetchIdle ==
    /\ p_source = <<>> /\ p_limit = NoLimit /\ offset = 0 /\ all_records = <<>>
    /\ p_requested = <<>> /\ p_pc = "idle" /\ p_ret = <<>>

Limits == {NoLimit} \cup {<<n>> : n \in 0..MaxLimit}

FetchInit ==
    /\ p_source \in SeqsUpTo(TaxRollRecords, MaxSource)
    /\ p_limit \in Limits
    /\ offset = 0
    /\ all_records = <<>>
    /\ p_requested = <<>>
    /\ p_pc = "request"
    /\ p_ret = <<>>

(***************************************************************************)
(* src/src/skip_trace_client.py: _extract_contacts.                         *)
(***************************************************************************)
\* The characters used, in code point order, for Python's string comparison.
OrdChars == <<"-", "/", "0", "1", "2", "3", "4", "5", "6", "7", "8", "9", "A", "N">>

CharOrd(c) == CHOOSE i \in 1..Len(OrdChars) : OrdChars[i] = c

RECURSIVE StrLess(_, _)
StrLess(a, b) ==
    IF b = <<>> THEN FALSE
    ELSE IF a = <<>> THEN TRUE
    ELSE IF Head(a) = Head(b) THEN StrLess(Tail(a), Tail(b))
    ELSE CharOrd(Head(a)) < CharOrd(Head(b))

DigitVal(c) == CharOrd(c) - CharOrd("0")

\* int(score) of a string: its value when it is all digits, ValueError otherwise.
IsNumeric(str) == str # <<>> /\ \A i \in 1..Len(str) : str[i] \in Digits

RECURSIVE IntValue(_)
IntValue(str) ==
    IF str = <<>> THEN 0
    ELSE IntValue(SubSeq(str, 1, Len(str) - 1)) * 10 + DigitVal(str[Len(str)])

RecentFrom == <<"2", "0", "2", "4">>

\* str(e) of an exception, as many characters as the text has.
ExcText(n) == [i \in 1..n |-> "e"]

\* "invalid literal for int() with base 10: 'N/A'"
ValueErrorLen == 44

\* str.title() on the names used here.
Title(name) ==
    CASE name = "JANE" -> "Jane"
      [] name = "doe" -> "Doe"
      [] OTHER -> name

NonEmpty(parts) == SelectSeq(parts, LAMBDA x : x # "")

\* The phone tuple (phone_num, quality, phone_type, is_verified, is_recent).
PhoneTuple(phone) ==
    LET is_recent == phone.lastReportedDate # <<>>
                     /\ ~StrLess(phone.lastReportedDate, RecentFrom)
        is_verified == phone.tested /\ phone.reachable
        score == IF phone.score = <<>> THEN 0 ELSE IntValue(phone.score)
        quality == (IF is_verified THEN 50 ELSE 0)
                   + (IF is_recent THEN 40 ELSE 0)
                   + (IF score >= 95 THEN 20 ELSE IF score >= 90 THEN 10 ELSE 0)
                   + (IF phone.type = "Mobile" THEN 10 ELSE 0)
    IN  [number |-> phone.number, quality |-> quality, type |-> phone.type,
         is_verified |-> is_verified, is_recent |-> is_recent,
         included |-> is_verified \/ is_recent \/ (score = 100 /\ phone.reachable)]

\* The loop over person["phoneNumbers"]: the list of included tuples, or the
\* ValueError of int(score).
RECURSIVE phone_loop(_, _)
phone_loop(cands, phones) ==
    IF cands = <<>> THEN [raised |-> FALSE, phones |-> phones]
    ELSE LET phone == Head(cands)
         IN  IF phone.number = ""
                \/ \E i \in 1..Len(phones) : phones[i].number = phone.number
             THEN phone_loop(Tail(cands), phones)
             ELSE IF phone.dnc
             THEN phone_loop(Tail(cands), phones)
             ELSE IF phone.score # <<>> /\ ~IsNumeric(phone.score)
             THEN [raised |-> TRUE, phones |-> phones]
             ELSE LET t == PhoneTuple(phone)
                  IN  phone_loop(Tail(cands),
                                 IF t.included THEN Append(phones, t) ELSE phones)

\* list.sort(key=quality, reverse=True): stable, so equal qualities keep
\* their order.
RECURSIVE sort_by_quality(_)
sort_by_quality(phones) ==
    IF phones = <<>> THEN <<>>
    ELSE LET init == sort_by_quality(SubSeq(phones, 1, Len(phones) - 1))
             x == phones[Len(phones)]
             n == Cardinality({i \in 1..Len(init) : init[i].quality >= x.quality})
         IN  SubSeq(init, 1, n) \o <<x>> \o SubSeq(init, n + 1, Len(init))

RECURSIVE email_loop(_, _)
email_loop(cands, emails) ==
    IF cands = <<>> THEN emails
    ELSE LET email_addr == Head(cands).email
         IN  IF email_addr # "" /\ email_addr \notin Range(emails)
             THEN email_loop(Tail(cands), Append(emails, email_addr))
             ELSE email_loop(Tail(cands), emails)

At(s, i) == IF Len(s) >= i THEN s[i] ELSE ""

\* The name and the mailing address are joined strings in the code; here they
\* are the sequences of the parts joined.
_empty_contacts ==
    [owner_name |-> <<>>, phone_1 |-> "", phone_2 |-> "", phone_3 |-> "",
     email_1 |-> "", email_2 |-> "", mailing_address |-> <<>>,
     data_quality |-> "no_data"]

_extract_contacts(person) ==
    LET looped == phone_loop(person.phoneNumbers, <<>>)
        phones == sort_by_quality(looped.phones)
        has_verified_phone == \E i \in 1..Len(phones) : phones[i].is_verified
        has_recent_phone == \E i \in 1..Len(phones) : phones[i].is_recent
        phone_numbers == [i \in 1..Len(phones) |-> phones[i].number]
        emails == email_loop(person.emails, <<>>)
        mailing == person.mailingAddress
        data_quality == IF has_verified_phone THEN "verified"
                        ELSE IF has_recent_phone THEN "recent"
                        ELSE IF phone_numbers # <<>> THEN "unverified"
                        ELSE "no_phone"
    IN  IF looped.raised
        THEN [raised |-> TRUE, text |-> ExcText(ValueErrorLen),
              contacts |-> _empty_contacts]
        ELSE [raised |-> FALSE, text |-> <<>>,
              contacts |->
                [owner_name |-> NonEmpty(<<Title(person.name.first),
                                           Title(person.name.last)>>),
                 phone_1 |-> At(phone_numbers, 1),
                 phone_2 |-> At(phone_numbers, 2),
                 phone_3 |-> At(phone_numbers, 3),
                 email_1 |-> At(emails, 1),
                 email_2 |-> At(emails, 2),
                 mailing_address |-> NonEmpty(<<mailing.street, mailing.city,
                                                mailing.state, mailing.zip>>),
                 data_quality |-> data_quality]]

(***************************************************************************)
(* The lookup results _extract_contacts is run on: every list of up to      *)
(* MaxPhones phone candidates, each one of five kinds of candidate (tested  *)
(* and reachable; reported in 2024 with a high score; reachable with score  *)
(* 100; stale; with a score that is no number), flagged do-not-call or not. *)
(***************************************************************************)
Numbers == {"555", "111"}

Date2024 == <<"2", "0", "2", "4", "-", "0", "1", "-", "0", "1">>
Date2023 == <<"2", "0", "2", "3", "-", "1", "2", "-", "3", "1">>

PhoneKinds ==
    { [tested |-> TRUE, reachable |-> TRUE, score |-> <<>>,
       lastReportedDate |-> <<>>, type |-> "Landline"],
      [tested |-> FALSE, reachable |-> FALSE, score |-> <<"9", "6">>,
       lastReportedDate |-> Date2024, type |-> "Mobile"],
      [tested |-> FALSE, reachable |-> TRUE, score |-> <<"1", "0", "0">>,
       lastReportedDate |-> <<>>, type |-> "Landline"],
      [tested |-> FALSE, reachable |-> FALSE, score |-> <<"9", "0">>,
       lastReportedDate |-> Date2023, type |-> "Mobile"],
      [tested |-> TRUE, reachable |-> TRUE, score |-> <<"N", "/", "A">>,
       lastReportedDate |-> Date2024, type |-> "Mobile"] }

PhoneCandidates ==
    { [number |-> n, dnc |-> d, tested |-> k.tested, reachable |-> k.reachable,
       score |-> k.score, lastReportedDate |-> k.lastReportedDate, type |-> k.type]
      : n \in Numbers, d \in BOOLEAN, k \in PhoneKinds }

Person(matched, phoneNumbers) ==
    [matched |-> matched,
     name |-> [first |-> "JANE", last |-> "doe"],
     phoneNumbers |-> phoneNumbers,
     emails |-> <<[email |-> "j@x.org"], [email |-> "j@x.org"], [email |-> ""]>>,
     mailingAddress |-> [street |-> "1 A ST", city |-> "San Francisco",
                         state |-> "CA", zip |-> ""]]

NoPerson == Person(FALSE, <<>>)

\* Lists of one more candidate, each with a number of its own and not flagged
\* do-not-call: more numbers than the phone columns of the output.
MoreNumbers == <<"555", "111", "222", "333", "444">>

DistinctLists ==
    { [i \in 1..(MaxPhones + 1) |->
          [number |-> MoreNumbers[i], dnc |-> FALSE, tested |-> ks[i].tested,
           reachable |-> ks[i].reachable, score |-> ks[i].score,
           lastReportedDate |-> ks[i].lastReportedDate, type |-> ks[i].type]]
      : ks \in [1..(MaxPhones + 1) -> PhoneKinds] }

ExtractInit ==
    /\ x_person \in {Person(TRUE, ph) :
                       ph \in SeqsUpTo(PhoneCandidates, MaxPhones) \cup DistinctLists}
    /\ x_ret = [raised |-> FALSE, text |-> <<>>, contacts |-> _empty_contacts]
    /\ x_pc = "call"

ExtractCall ==
    /\ x_pc = "call"
    /\ x_ret' = _extract_contacts(x_person)
    /\ x_pc' = IF x_ret'.raised THEN "raised" ELSE "returned"
    /\ UNCHANGED x_person

ExtractIdle ==
    /\ x_person = NoPerson
    /\ x_ret = [raised |-> FALSE, text |-> <<>>, contacts |-> _empty_contacts]
    /\ x_pc = "idle"

(***************************************************************************)
(* src/src/datasf_client.py: the records get_residential_properties and     *)
(* get_roofing_permits build from the raw ones.                             *)
(***************************************************************************)
\* {**a, **b}
Merge(a, b) ==
    [k \in DOMAIN a \cup DOMAIN b |-> IF k \in DOMAIN b THEN b[k] ELSE a[k]]

ToProperty(record) ==
    [block |-> record.block, lot |-> record.lot,
     block_lot |-> format_block_lot(record.block, record.lot),
     address |-> record.property_location,
     property_type |-> record.use_definition,
     year_built |-> record.year_property_built]

MapSeq(s, Op(_)) == [i \in 1..Len(s) |-> Op(s[i])]

HasKey(r) == r.block_lot # <<>>

get_residential_properties(records) == SelectSeq(MapSeq(records, ToProperty), HasKey)

DaysSentinel == 9999

\* run_pipeline step 5
StampLead(lead) ==
    Merge(lead, [last_roof_permit_date |-> None,
                 days_since_last_permit |-> DaysSentinel])

(***************************************************************************)
(* src/src/skip_trace_client.py: skip_trace_batch of BatchDataClient and of *)
(* MockSkipTraceClient, one action for the entry and one per batch request. *)
(***************************************************************************)
ErrTextMax == 50

Status(tag, detail) == [tag |-> tag, detail |-> detail]

WithStatus(prop, contacts, status) ==
    Merge(Merge(prop, contacts), [enrichment_status |-> status])

\* _empty_enrichment
_empty_enrichment(props) ==
    [i \in 1..Len(props) |->
        WithStatus(props[i], _empty_contacts, Status("skipped", <<>>))]

\* MockSkipTraceClient without its own skip_trace_batch body.
mock_skip_trace_batch_inherited(props) == _empty_enrichment(props)

mock_skip_trace_batch(props) ==
    [i \in 1..Len(props) |->
        WithStatus(props[i], _empty_contacts, Status("mock", <<>>))]

\* str(n) of a positive integer
RECURSIVE StrOfInt(_)
StrOfInt(n) ==
    IF n < 10 THEN <<OrdChars[CharOrd("0") + n]>>
    ELSE StrOfInt(n \div 10) \o <<OrdChars[CharOrd("0") + (n % 10)]>>

ErrorRecords(batch, detail) ==
    [j \in 1..Len(batch) |->
        WithStatus(batch[j], _empty_contacts, Status("error", detail))]

\* The loop taking the first result for every position.
RECURSIVE match_loop_first(_, _, _, _)
match_loop_first(batch, persons, j, appended) ==
    IF j > Len(batch) THEN [raised |-> FALSE, text |-> <<>>, appended |-> appended]
    ELSE IF j <= Len(persons) /\ persons[j].matched
    THEN LET got == _extract_contacts(persons[1])
         IN  IF got.raised
             THEN [raised |-> TRUE, text |-> got.text, appended |-> appended]
             ELSE match_loop_first(batch, persons, j + 1,
                    Append(appended,
                           WithStatus(batch[j], got.contacts, Status("success", <<>>))))
    ELSE match_loop_first(batch, persons, j + 1,
           Append(appended,
                  WithStatus(batch[j], _empty_contacts, Status("no_match", <<>>))))

\* The loop "for j, prop in enumerate(batch)" from position j on: the records
\* appended, and the exception that ended it, if one did.
RECURSIVE match_loop(_, _, _, _)
match_loop(batch, persons, j, appended) ==
    IF j > Len(batch) THEN [raised |-> FALSE, text |-> <<>>, appended |-> appended]
    ELSE IF j <= Len(persons) /\ persons[j].matched
    THEN LET got == _extract_contacts(persons[j])
         IN  IF got.raised
             THEN [raised |-> TRUE, text |-> got.text, appended |-> appended]
             ELSE match_loop(batch, persons, j + 1,
                    Append(appended,
                           WithStatus(batch[j], got.contacts, Status("success", <<>>))))
    ELSE match_loop(batch, persons, j + 1,
           Append(appended,
                  WithStatus(batch[j], _empty_contacts, Status("no_match", <<>>))))

\* What the handling of one batch appends to `enriched`, given the answer.
HandleBatch(batch, answer) ==
    CASE answer.kind = "transport" ->
            ErrorRecords(batch, Take(ExcText(answer.len), ErrTextMax))
      [] answer.kind = "http" /\ answer.status # 200 ->
            ErrorRecords(batch, StrOfInt(answer.status))
      [] answer.kind = "http" /\ answer.status = 200 /\ ~answer.json ->
            ErrorRecords(batch, Take(ExcText(answer.len), ErrTextMax))
      [] OTHER ->
            LET looped == match_loop(batch, answer.persons, 1, <<>>)
            IN  IF looped.raised
                THEN looped.appended \o ErrorRecords(batch, Take(looped.text, ErrTextMax))
                ELSE looped.appended

Answer(kind, status, json, len, persons) ==
    [kind |-> kind, status |-> status, json |-> json, len |-> len, persons |-> persons]

\* The lookup results a batch may be answered with.
BatchPersons ==
    { NoPerson,
      Person(TRUE, <<[number |-> "555", dnc |-> FALSE, tested |-> TRUE,
                      reachable |-> TRUE, score |-> <<"1", "0", "0">>,
                      lastReportedDate |-> <<>>, type |-> "Mobile"]>>),
      Person(TRUE, <<[number |-> "111", dnc |-> FALSE, tested |-> FALSE,
                      reachable |-> FALSE, score |-> <<"9", "6">>,
                      lastReportedDate |-> Date2024, type |-> "Mobile"]>>),
      Person(TRUE, <<[number |-> "111", dnc |-> FALSE, tested |-> FALSE,
                      reachable |-> FALSE, score |-> <<"N", "/", "A">>,
                      lastReportedDate |-> Date2024, type |-> "Mobile"]>>) }

\* An exception of the request (a short and a long text), a status other than
\* 200, a 200 whose body is no JSON, and a 200 with up to BatchSize results.
BatchAnswers ==
    {Answer("transport", 0, FALSE, n, <<>>) : n \in {17, ErrTextMax + 10}}
    \cup {Answer("http", st, FALSE, 0, <<>>) : st \in {201, 500}}
    \cup {Answer("http", 200, FALSE, 41, <<>>)}
    \cup {Answer("http", 200, TRUE, 0, ps) : ps \in SeqsUpTo(BatchPersons, BatchSize)}

BatchCall ==
    /\ b_pc = "call"
    /\ IF b_client = "mock"
       THEN /\ b_ret' = mock_skip_trace_batch(b_properties)
            /\ b_pc' = "returned"
            /\ UNCHANGED <<b_i, enriched>>
       ELSE IF ~api_key
       THEN /\ b_ret' = _empty_enrichment(b_properties)
            /\ b_pc' = "returned"
            /\ UNCHANGED <<b_i, enriched>>
       ELSE /\ enriched' = <<>>
            /\ b_i' = 1
            /\ IF chunk_list(b_properties, BatchSize) = <<>>
               THEN b_pc' = "returned" /\ b_ret' = <<>>
               ELSE b_pc' = "request" /\ UNCHANGED b_ret
    /\ UNCHANGED <<b_client, api_key, b_properties, b_requests>>

Failed(answer) == answer.kind = "transport" \/ answer.status # 200 \/ ~answer.json

\* The loop with a failed batch ending it.
BatchRequest_Abort(answers) ==
    /\ b_pc = "request"
    /\ \E answer \in answers :
        LET batches == chunk_list(b_properties, BatchSize)
            appended == HandleBatch(batches[b_i], answer)
        IN  /\ enriched' = enriched \o appended
            /\ b_requests' = Append(b_requests,
                                [batch |-> b_i, props |-> batches[b_i],
                                 answer |-> answer, appended |-> appended])
            /\ IF b_i = Len(batches) \/ Failed(answer)
               THEN b_pc' = "returned" /\ b_ret' = enriched' /\ UNCHANGED b_i
               ELSE b_i' = b_i + 1 /\ UNCHANGED <<b_pc, b_ret>>
    /\ UNCHANGED <<b_client, api_key, b_properties>>

\* One pass of the loop over the batches: the POST and what follows it.
BatchRequest(answers) ==
    /\ b_pc = "request"
    /\ \E answer \in answers :
        LET batches == chunk_list(b_properties, BatchSize)
            appended == HandleBatch(batches[b_i], answer)
        IN  /\ enriched' = enriched \o appended
            /\ b_requests' = Append(b_requests,
                                [batch |-> b_i, props |-> batches[b_i],
                                 answer |-> answer, appended |-> appended])
            /\ IF b_i = Len(batches)
               THEN b_pc' = "returned" /\ b_ret' = enriched' /\ UNCHANGED b_i
               ELSE b_i' = b_i + 1 /\ UNCHANGED <<b_pc, b_ret>>
    /\ UNCHANGED <<b_client, api_key, b_properties>>

BatchIdle ==
    /\ b_client = "live" /\ api_key = FALSE /\ b_properties = <<>> /\ b_i = 0
    /\ enriched = <<>> /\ b_requests = <<>> /\ b_pc = "idle" /\ b_ret = <<>>

\* The leads skip_trace_batch is run on: the parcels of the tax rolls, stamped.
Leads ==
    {StampLead(p) : p \in Range(get_residential_properties(
                                  CHOOSE s \in [1..Cardinality(TaxRollRecords) -> TaxRollRecords] :
                                      Range(s) = TaxRollRecords))}

BatchInit ==
    /\ b_client \in {"live", "mock"}
    /\ api_key \in BOOLEAN
    /\ b_properties \in SeqsUpTo(Leads, MaxLeads)
    /\ b_i = 0
    /\ enriched = <<>>
    /\ b_requests = <<>>
    /\ b_pc = "call"
    /\ b_ret = <<>>

(***************************************************************************)
(* src/src/pipeline.py and src/main.py: run_pipeline under main. The run    *)
(* starts with the first page of the tax rolls about to be requested; the   *)
(* pages and the batches are requested by FetchPage and BatchRequest.       *)
(***************************************************************************)
ToPermit(record) ==
    [block |-> record.block, lot |-> record.lot,
     block_lot |-> format_block_lot(record.block, record.lot),
     filed_date |-> record.filed_date,
     description |-> record.description]

get_roofing_permits(records) == SelectSeq(MapSeq(records, ToPermit), HasKey)

RawPermit(block, lot, filed_date) ==
    [block |-> block, lot |-> lot, filed_date |-> filed_date,
     description |-> "REROOFING"]

PermitRecords ==
    { RawPermit(<<"2">>, <<"2">>, "2020-05-01"),
      RawPermit(<<"1">>, <<"1">>, "2019-03-01"),
      RawPermit(None, <<"5">>, "2021-07-01") }

\* Only the first permit's key is looked at.
FilterLeads_FirstPermit(props, permits) ==
    LET permitted_block_lots == {permits[j].block_lot : j \in 1..Min(1, Len(permits))}
    IN  SelectSeq(props, LAMBDA q : q.block_lot \notin permitted_block_lots)

\* run_pipeline steps 3 and 4 (permit_dates, which nothing reads, is left out).
FilterLeads(props, permits) ==
    LET permitted_block_lots == {permits[j].block_lot : j \in 1..Len(permits)}
    IN  SelectSeq(props, LAMBDA q : q.block_lot \notin permitted_block_lots)

NoRecords_Never(list) == FALSE

\* "if not properties" and "if not leads"
NoRecords(list) == list = <<>>

ColumnOrder ==
    <<"address", "block_lot", "owner_name", "phone_1", "phone_2", "phone_3",
      "email_1", "email_2", "mailing_address", "data_quality", "property_type",
      "year_built", "last_roof_permit_date", "days_since_last_permit">>

\* export_to_csv: the files after the call. No file for an empty list.
export_to_csv(files, records) ==
    IF records = <<>> THEN files
    ELSE LET df_columns == UNION {DOMAIN records[i] : i \in 1..Len(records)}
             existing_columns == SelectSeq(ColumnOrder, LAMBDA col : col \in df_columns)
         IN  Append(files,
                    [header |-> existing_columns,
                     rows |-> [i \in 1..Len(records) |->
                                 [col \in Range(existing_columns) \cap DOMAIN records[i]
                                    |-> records[i][col]]]])

PipelineLimits == {NoLimit, <<2>>}

PipelineInit ==
    /\ taxRolls \in SeqsUpTo(TaxRollRecords, MaxProps)
    /\ permitsDb \in SeqsUpTo(PermitRecords, MaxPermits)
    /\ limit \in PipelineLimits
    /\ skip_enrichment \in BOOLEAN
    /\ pc = "fetch_properties"
    /\ properties = <<>>
    /\ roof_permits = <<>>
    /\ leads = <<>>
    /\ calls = <<"get_residential_properties">>
    /\ ret = <<>>
    /\ exit_code = <<>>
    /\ csv = <<>>
    \* get_residential_properties(limit) has called _fetch_paginated
    /\ p_source = taxRolls
    /\ p_limit = limit
    /\ offset = 0
    /\ all_records = <<>>
    /\ p_requested = <<>>
    /\ p_pc = "request"
    /\ p_ret = <<>>

\* run_pipeline returns and main exits with 0.
Return(list) ==
    /\ ret' = list
    /\ pc' = "done"
    /\ exit_code' = <<0>>

\* _fetch_paginated raised: nothing catches it before main, which exits with 1.
FetchFailed ==
    /\ pc \in {"fetch_properties", "fetch_permits"}
    /\ p_pc = "raised"
    /\ pc' = "failed"
    /\ exit_code' = <<1>>
    /\ UNCHANGED <<taxRolls, permitsDb, limit, skip_enrichment, properties,
                   roof_permits, leads, calls, ret, csv>>
    /\ UNCHANGED <<fetchVars, batchVars>>

\* The tax rolls are fetched: steps 1 and 2 up to the first page of permits.
PropertiesFetched ==
    /\ pc = "fetch_properties"
    /\ p_pc = "returned"
    /\ LET found == get_residential_properties(p_ret)
       IN  IF NoRecords(found)
           THEN /\ Return(<<>>)
                /\ UNCHANGED <<properties, calls, fetchVars>>
           ELSE /\ properties' = deduplicate_by_key(found, "block_lot")
                /\ calls' = Append(calls, "get_roofing_permits")
                /\ FetchStart(permitsDb, NoLimit)
                /\ pc' = "fetch_permits"
                /\ UNCHANGED <<ret, exit_code>>
    /\ UNCHANGED <<taxRolls, permitsDb, limit, skip_enrichment, roof_permits, leads, csv>>
    /\ UNCHANGED batchVars

\* The permits are fetched: steps 3 to 6 up to the call of skip_trace_batch.
\* The leads are the property records themselves, so stamping a lead stamps
\* the record in `properties` too.
PermitsFetched ==
    /\ pc = "fetch_permits"
    /\ p_pc = "returned"
    /\ LET permits == get_roofing_permits(p_ret)
           found == FilterLeads(properties, permits)
       IN  /\ roof_permits' = permits
           /\ IF NoRecords(found)
              THEN /\ Return(<<>>)
                   /\ leads' = found
                   /\ UNCHANGED <<properties, calls, batchVars>>
              ELSE /\ leads' = MapSeq(found, StampLead)
                   /\ properties' = [i \in 1..Len(properties) |->
                                       IF properties[i] \in Range(found)
                                       THEN StampLead(properties[i])
                                       ELSE properties[i]]
                   /\ b_client' = IF skip_enrichment THEN "mock" ELSE "live"
                   /\ api_key' \in BOOLEAN
                   /\ b_properties' = leads'
                   /\ b_pc' = "call"
                   /\ calls' = Append(calls, "skip_trace_batch")
                   /\ pc' = "enrich"
                   /\ UNCHANGED <<b_i, enriched, b_requests, b_ret, ret, exit_code>>
    /\ UNCHANGED <<taxRolls, permitsDb, limit, skip_enrichment, csv>>
    /\ UNCHANGED fetchVars

\* skip_trace_batch returned: step 7 and the return.
Enriched ==
    /\ pc = "enrich"
    /\ b_pc = "returned"
    /\ calls' = Append(calls, "export_to_csv")
    /\ csv' = export_to_csv(csv, b_ret)
    /\ Return(b_ret)
    /\ UNCHANGED <<taxRolls, permitsDb, limit, skip_enrichment, properties,
                   roof_permits, leads>>
    /\ UNCHANGED <<fetchVars, batchVars>>

PipelineIdle ==
    /\ taxRolls = <<>> /\ permitsDb = <<>> /\ limit = NoLimit
    /\ skip_enrichment = FALSE /\ pc = "idle" /\ properties = <<>>
    /\ roof_permits = <<>> /\ leads = <<>> /\ calls = <<>> /\ ret = <<>>
    /\ exit_code = <<>> /\ csv = <<>>

\* The answers a batch gets in a pipeline run: an exception, a status 500, and
\* a 200 with no result or with one matched result.
PipelineAnswers ==
    { Answer("transport", 0, FALSE, 17, <<>>),
      Answer("http", 500, FALSE, 0, <<>>),
      Answer("http", 200, TRUE, 0, <<>>),
      Answer("http", 200, TRUE, 0,
             <<Person(TRUE, <<[number |-> "555", dnc |-> FALSE, tested |-> TRUE,
                               reachable |-> TRUE, score |-> <<"1", "0", "0">>,
                               lastReportedDate |-> <<>>, type |-> "Mobile"]>>)>>) }

InitFormat == FmtInit /\ DedupIdle /\ FetchIdle /\ ExtractIdle /\ BatchIdle /\ PipelineIdle

NextFormat == FmtCall /\ UNCHANGED <<dedupVars, fetchVars, extractVars, batchVars, pipeVars>>

SpecFormat == InitFormat /\ [][NextFormat]_vars

InitDedup == DedupInit /\ FmtIdle /\ FetchIdle /\ ExtractIdle /\ BatchIdle /\ PipelineIdle

NextDedup ==
    \/ DedupCall /\ UNCHANGED <<fmtVars, fetchVars, extractVars, batchVars, pipeVars>>
    \/ DedupAgain /\ UNCHANGED <<fmtVars, fetchVars, extractVars, batchVars, pipeVars>>

SpecDedup == InitDedup /\ [][NextDedup]_vars

InitFetch == FetchInit /\ FmtIdle /\ DedupIdle /\ ExtractIdle /\ BatchIdle /\ PipelineIdle

NextFetch == FetchPage /\ UNCHANGED <<fmtVars, dedupVars, extractVars, batchVars, pipeVars>>

\* Every request is answered or times out (httpx timeout=60.0), so a pending
\* page request is eventually taken.
SpecFetch == InitFetch /\ [][NextFetch]_vars /\ WF_vars(NextFetch)

InitExtract == ExtractInit /\ FmtIdle /\ DedupIdle /\ FetchIdle /\ BatchIdle /\ PipelineIdle

NextExtract == ExtractCall /\ UNCHANGED <<fmtVars, dedupVars, fetchVars, batchVars, pipeVars>>

SpecExtract == InitExtract /\ [][NextExtract]_vars

InitBatch == BatchInit /\ FmtIdle /\ DedupIdle /\ FetchIdle /\ ExtractIdle /\ PipelineIdle

NextBatch ==
    \/ BatchCall /\ UNCHANGED <<fmtVars, dedupVars, fetchVars, extractVars, pipeVars>>
    \/ BatchRequest(BatchAnswers) /\ UNCHANGED <<fmtVars, dedupVars, fetchVars, extractVars, pipeVars>>

\* Every POST is answered, fails or times out (httpx timeout=60.0), so the
\* loop always gets to take its next step.
SpecBatch == InitBatch /\ [][NextBatch]_vars /\ WF_vars(NextBatch)

Init == PipelineInit /\ FmtIdle /\ DedupIdle /\ ExtractIdle /\ BatchIdle

Next ==
    \/ FetchPage /\ UNCHANGED <<fmtVars, dedupVars, extractVars, batchVars, pipeVars>>
    \/ FetchFailed /\ UNCHANGED <<fmtVars, dedupVars, extractVars>>
    \/ PropertiesFetched /\ UNCHANGED <<fmtVars, dedupVars, extractVars>>
    \/ PermitsFetched /\ UNCHANGED <<fmtVars, dedupVars, extractVars>>
    \/ BatchCall /\ UNCHANGED <<fmtVars, dedupVars, fetchVars, extractVars, pipeVars>>
    \/ BatchRequest(PipelineAnswers)
         /\ UNCHANGED <<fmtVars, dedupVars, fetchVars, extractVars, pipeVars>>
    \/ Enriched /\ UNCHANGED <<fmtVars, dedupVars, extractVars>>

\* One flow of control: every await is answered, fails or times out, and the
\* code between two awaits runs to the next one.
Spec == Init /\ [][Next]_vars /\ WF_vars(Next)

(***************************************************************************)
(* Claims about format_block_lot (checked under SpecFormat).                *)
(***************************************************************************)
AllDigits(s) == \A i \in 1..Len(s) : s[i] \in Digits

\* The shape ^\d{4}-\d{3}$.
MatchesKeyPattern(s) ==
    /\ Len(s) = BlockWidth + 1 + LotWidth
    /\ \A i \in 1..BlockWidth : s[i] \in Digits
    /\ s[BlockWidth + 1] = "-"
    /\ \A i \in (BlockWidth + 2)..(BlockWidth + 1 + LotWidth) : s[i] \in Digits

\* s is t left-padded with zeros to at least `width` characters.
ZeroPadded(s, t, width) ==
    /\ Len(s) = Max(Len(t), width)
    /\ SubSeq(s, Len(s) - Len(t) + 1, Len(s)) = t
    /\ \A i \in 1..(Len(s) - Len(t)) : s[i] = "0"

\* C10 as stated: the result is empty iff an input is empty or absent, and
\* otherwise always has the shape dddd-ddd.
C10_Original ==
    f_pc = "returned" =>
        /\ (f_ret = <<>>) <=> (Falsy(f_block) \/ Falsy(f_lot))
        /\ f_ret # <<>> => MatchesKeyPattern(f_ret)

\* C10 amended: the result is empty iff an input is empty or absent; otherwise
\* it is the block padded with zeros to at least 4 characters, a hyphen, and
\* the lot padded with zeros to at least 3 characters (longer inputs are kept
\* whole, zeros go after a leading sign), so it has the shape dddd-ddd exactly
\* when the block is 1 to 4 digits and the lot 1 to 3 digits; ("12","3") gives
\* "0012-003".
C10_FormatBlockLot ==
    /\ format_block_lot(<<"1", "2">>, <<"3">>)
          = <<"0", "0", "1", "2", "-", "0", "0", "3">>
    /\ f_pc = "returned" =>
        /\ (f_ret = <<>>) <=> (Falsy(f_block) \/ Falsy(f_lot))
        /\ f_ret # <<>> =>
            LET bw == Max(Len(f_block), BlockWidth)
                lw == Max(Len(f_lot), LotWidth)
                b == SubSeq(f_ret, 1, bw)
                l == SubSeq(f_ret, bw + 2, Len(f_ret))
            IN  /\ Len(f_ret) = bw + 1 + lw
                /\ f_ret[bw + 1] = "-"
                /\ f_block[1] \notin {"+", "-"} => ZeroPadded(b, f_block, BlockWidth)
                /\ f_lot[1] \notin {"+", "-"} => ZeroPadded(l, f_lot, LotWidth)
                /\ MatchesKeyPattern(f_ret) <=>
                        /\ Len(f_block) <= BlockWidth /\ AllDigits(f_block)
                        /\ Len(f_lot) <= LotWidth /\ AllDigits(f_lot)

C10_Witness ==
    /\ f_pc = "returned"
    /\ f_block = <<"7">>
    /\ f_lot = <<"7", "7", "7", "7">>
    /\ f_ret = <<"0", "0", "0", "7", "-", "7", "7", "7", "7">>

(***************************************************************************)
(* Claims about deduplicate_by_key (checked under SpecDedup).               *)
(***************************************************************************)
\* The index of the first record of `records` whose key is k.
FirstIndex(records, key, k) ==
    CHOOSE i \in 1..Len(records) :
        /\ records[i][key] = k
        /\ \A j \in 1..(i - 1) : records[j][key] # k

\* C9: the result holds each non-empty key of the input exactly once, each
\* retained record is the first occurrence of its key, retained records keep
\* their input order, and deduplicating the result again changes nothing.
C9_DedupIdempotentOrdered ==
    LET keys == {d_records[i].block_lot : i \in 1..Len(d_records)}
        kept == {k \in keys : ~Falsy(k)}
    IN  /\ d_pc \in {"again", "returned"} =>
            /\ \A k \in kept :
                 Cardinality({i \in 1..Len(d_result) : d_result[i].block_lot = k}) = 1
            /\ \A i \in 1..Len(d_result) :
                 /\ d_result[i].block_lot \in kept
                 /\ d_result[i]
                      = d_records[FirstIndex(d_records, "block_lot", d_result[i].block_lot)]
            /\ \A i, j \in 1..Len(d_result) :
                 i < j => FirstIndex(d_records, "block_lot", d_result[i].block_lot)
                            < FirstIndex(d_records, "block_lot", d_result[j].block_lot)
        /\ d_pc = "returned" => d_again = d_result

C9_Witness ==
    /\ d_pc = "returned"
    /\ Len(d_records) = 4
    /\ d_records[1].block_lot = <<"b">> /\ d_records[1].tag = "x"
    /\ d_records[2].block_lot = <<>>
    /\ d_records[3].block_lot = <<"a">>
    /\ d_records[4].block_lot = <<"b">> /\ d_records[4].tag = "y"
    /\ d_result = <<d_records[1], d_records[3]>>
    /\ d_again = d_result

(***************************************************************************)
(* Claims about _fetch_paginated (checked under SpecFetch).                 *)
(***************************************************************************)
\* C6 as stated: whenever a limit is given, the first min(N, limit) records
\* are returned.
C6_Original ==
    (p_pc = "returned" /\ p_limit # NoLimit) =>
        p_ret = Take(p_source, Min(Len(p_source), p_limit[1]))

C6_Steps ==
    LET N == Len(p_source)
        k == Len(p_requested)
        positive == p_limit # NoLimit /\ p_limit[1] > 0
        \* the i-th page is full and leaves the accumulated count under the limit
        goesOn(i) == /\ i * PageSize <= N
                     /\ ~(positive /\ i * PageSize >= p_limit[1])
    IN  /\ \A i \in 1..k : p_requested[i].offset = (i - 1) * PageSize
        /\ \A i \in 1..(k - 1) : goesOn(i)
        /\ p_pc = "request" => (offset = k * PageSize /\ \A i \in 1..k : goesOn(i))
        /\ p_pc = "returned" =>
            /\ k >= 1 /\ ~goesOn(k)
            /\ p_ret = IF positive THEN Take(p_source, Min(N, p_limit[1]))
                                   ELSE p_source

\* C6 amended: against a finite source of N records served in pages of size
\* P, _fetch_paginated terminates; it requests offsets 0, P, 2P, ... each
\* once and in order, and stops after the first page shorter than P or as
\* soon as the accumulated count reaches a positive limit; it returns the
\* first N records when the limit is absent or 0, and the first min(N, limit)
\* records when the limit is positive.
C6_FetchPaginated == []C6_Steps /\ <>(p_pc \in {"returned", "raised"})

C6_Witness ==
    /\ p_pc = "returned"
    /\ Len(p_source) = 5
    /\ p_limit = <<3>>
    /\ Len(p_requested) = 2
    /\ p_requested[2].offset = PageSize
    /\ p_ret = SubSeq(p_source, 1, 3)

(***************************************************************************)
(* Claims about _extract_contacts (checked under SpecExtract).              *)
(***************************************************************************)
RetainedPhones(contacts) ==
    {contacts.phone_1, contacts.phone_2, contacts.phone_3} \ {""}

\* C2: a number carried by a candidate with dnc=true is in none of phone_1,
\* phone_2, phone_3, also when the same number occurs again with other flags.
C2_DncNeverOutput ==
    x_pc = "returned" =>
        \A i \in 1..Len(x_person.phoneNumbers) :
            x_person.phoneNumbers[i].dnc =>
                x_person.phoneNumbers[i].number \notin RetainedPhones(x_ret.contacts)

OutPhones(contacts) == <<contacts.phone_1, contacts.phone_2, contacts.phone_3>>

\* The candidates that pass the inclusion test: with a number, not flagged
\* do-not-call, and verified, recent, or reachable with the score 100.
IncludedCandidates(person) ==
    {i \in 1..Len(person.phoneNumbers) :
        LET phone == person.phoneNumbers[i]
        IN  /\ phone.number # "" /\ ~phone.dnc
            /\ (phone.score = <<>> \/ IsNumeric(phone.score))
            /\ PhoneTuple(phone).included}

IncludedNumbers(person) ==
    {person.phoneNumbers[i].number : i \in IncludedCandidates(person)}

\* The highest quality score among the included candidates of a number.
BestQuality(person, number) ==
    LET qs == {PhoneTuple(person.phoneNumbers[i]).quality :
                  i \in {k \in IncludedCandidates(person) :
                            person.phoneNumbers[k].number = number}}
    IN  CHOOSE q \in qs : \A r \in qs : q >= r

\* C12: phone_1..3 are pairwise distinct included numbers, filled from the
\* left, in descending order of the highest quality score among each number's
\* included candidates, and no included number left out has a strictly higher
\* such score than a number that is in.
C12_SortDedupeTopThree ==
    x_pc = "returned" =>
        LET out == OutPhones(x_ret.contacts)
            best(n) == BestQuality(x_person, n)
            left == IncludedNumbers(x_person) \ Range(out)
        IN  /\ \A i, j \in 1..3 :
                  (i < j /\ out[j] # "") => (out[i] # "" /\ out[i] # out[j])
            /\ \A i \in 1..3 : out[i] # "" => out[i] \in IncludedNumbers(x_person)
            /\ \A i, j \in 1..3 :
                  (i < j /\ out[j] # "") => best(out[i]) >= best(out[j])
            /\ \A m \in left :
                  \A i \in 1..3 : out[i] # "" /\ best(out[i]) >= best(m)

\* The tuples of the phones kept as phone_1..3.
RetainedTuples(person) ==
    Take(sort_by_quality(phone_loop(person.phoneNumbers, <<>>).phones), 3)

\* C13: data_quality is a function of the phones kept as phone_1..3: verified
\* iff one of them was tested and reachable; else recent iff one of them was
\* last reported in 2024 or later; else unverified iff there is one; else
\* no_phone.
C13_QualityFromRetained ==
    x_pc = "returned" =>
        LET kept == RetainedTuples(x_person)
            dq == x_ret.contacts.data_quality
            verified == \E i \in 1..Len(kept) : kept[i].is_verified
            recent == \E i \in 1..Len(kept) : kept[i].is_recent
        IN  /\ \A i \in 1..3 :
                  OutPhones(x_ret.contacts)[i]
                    = (IF i <= Len(kept) THEN kept[i].number ELSE "")
            /\ dq = (IF verified THEN "verified"
                     ELSE IF recent THEN "recent"
                     ELSE IF kept # <<>> THEN "unverified"
                     ELSE "no_phone")

(***************************************************************************)
(* Claims about the live skip_trace_batch (checked under SpecBatch).        *)
(***************************************************************************)
Live == b_client = "live" /\ api_key

NumBatches(n) == (n + BatchSize - 1) \div BatchSize

C4_Requests ==
    LET n == Len(b_properties)
        k == Len(b_requests)
    IN  Live =>
        /\ k <= NumBatches(n)
        /\ \A i \in 1..k :
              /\ b_requests[i].batch = i
              /\ b_requests[i].props
                   = SubSeq(b_properties, (i - 1) * BatchSize + 1, Min(i * BatchSize, n))
        /\ b_pc = "request" => (b_i = k + 1 /\ k < NumBatches(n))
        /\ b_pc = "returned" => k = NumBatches(n)

\* C4: with an API key, whatever each batch is answered with (200, another
\* status, an exception), the batches are requested once each, in input
\* order, a failed batch is followed by the request of the next one, and the
\* call returns after the last batch.
C4_EachBatchOnce == []C4_Requests /\ <>(b_pc = "returned")

C4_Witness ==
    /\ Live
    /\ b_pc = "returned"
    /\ Len(b_requests) = 2
    /\ b_requests[1].answer.kind = "transport"
    /\ b_requests[2].answer.status = 500

\* Whether the handling of a batch raised: the request, the decoding of the
\* body, or the extraction of a matched result of the batch.
BatchRaised(req) ==
    \/ req.answer.kind = "transport"
    \/ req.answer.kind = "http" /\ req.answer.status = 200 /\ ~req.answer.json
    \/ /\ req.answer.kind = "http" /\ req.answer.status = 200 /\ req.answer.json
       /\ \E j \in 1..Min(Len(req.props), Len(req.answer.persons)) :
            /\ req.answer.persons[j].matched
            /\ phone_loop(req.answer.persons[j].phoneNumbers, <<>>).raised

EmptyContacts(rec) ==
    /\ rec.owner_name = <<>> /\ rec.mailing_address = <<>>
    /\ rec.phone_1 = "" /\ rec.phone_2 = "" /\ rec.phone_3 = ""
    /\ rec.email_1 = "" /\ rec.email_2 = ""

\* C5: when the handling of a batch raises, every record the batch put into
\* the output has empty contacts and a status error_<at most 50 characters>,
\* and none has the status success or no_match.
C5_ExceptionTaintsWholeBatch ==
    \A i \in 1..Len(b_requests) :
        BatchRaised(b_requests[i]) =>
            \A j \in 1..Len(b_requests[i].appended) :
                LET rec == b_requests[i].appended[j]
                IN  /\ EmptyContacts(rec)
                    /\ rec.enrichment_status.tag = "error"
                    /\ Len(rec.enrichment_status.detail) <= ErrTextMax

\* The record position j of a batch gets from the result at its own position:
\* the contacts extracted from persons[j] with the status success when
\* persons[j] exists and is matched, empty contacts with no_match otherwise.
OwnResult(req, j) ==
    LET persons == req.answer.persons
    IN  IF j <= Len(persons) /\ persons[j].matched
        THEN WithStatus(req.props[j], _extract_contacts(persons[j]).contacts,
                        Status("success", <<>>))
        ELSE WithStatus(req.props[j], _empty_contacts, Status("no_match", <<>>))

PositionsMatched(req) ==
    /\ Len(req.appended) = Len(req.props)
    /\ \A j \in 1..Len(req.props) :
          /\ req.appended[j] = OwnResult(req, j)
          /\ req.appended[j].enrichment_status.tag = "no_match" =>
                (EmptyContacts(req.appended[j])
                 /\ req.appended[j].data_quality = "no_data")

C14_OneRecordPerProperty ==
    (Live /\ b_pc = "returned") =>
        /\ Len(b_ret) = Len(b_properties)
        /\ \A i \in 1..Min(Len(b_ret), Len(b_properties)) :
              /\ b_ret[i].block_lot = b_properties[i].block_lot
              /\ b_ret[i].address = b_properties[i].address

(***************************************************************************)
(* Claims about run_pipeline (checked under Spec).                          *)
(***************************************************************************)
Filtered == pc \in {"enrich", "done"} /\ Len(calls) >= 2

Perms(n) == {f \in [1..n -> 1..n] : \A i, j \in 1..n : f[i] = f[j] => i = j}

KeysOf(list) == [i \in 1..Len(list) |-> list[i].block_lot]

\* C1: after the filter step a property is among the leads iff no permit has
\* its block_lot, the leads are the property list with the others removed,
\* order kept, and filtering against any reordering of the permits gives the
\* same leads.
C1_LeadFilterSetDifference ==
    Filtered =>
        LET permit_keys == {roof_permits[j].block_lot : j \in 1..Len(roof_permits)}
        IN  /\ \A i \in 1..Len(properties) :
                  (\E k \in 1..Len(leads) : leads[k] = properties[i])
                      <=> ~(\E j \in 1..Len(roof_permits) :
                              roof_permits[j].block_lot = properties[i].block_lot)
            /\ leads = SelectSeq(properties, LAMBDA q : q.block_lot \notin permit_keys)
            /\ \A f \in Perms(Len(roof_permits)) :
                  FilterLeads(properties, [j \in 1..Len(roof_permits) |-> roof_permits[f[j]]])
                      = leads

C1_Witness ==
    /\ Filtered
    /\ Len(properties) = 3
    /\ Len(roof_permits) = 2
    /\ roof_permits[1].block_lot # roof_permits[2].block_lot
    /\ KeysOf(leads) = <<properties[2].block_lot>>

Key001 == <<"0", "0", "0", "1", "-", "0", "0", "1">>
Key002 == <<"0", "0", "0", "2", "-", "0", "0", "2">>
Key003 == <<"0", "0", "0", "3", "-", "0", "0", "3">>

\* The scenario of C3: three properties, a permit on the second.
Scenario ==
    /\ KeysOf(get_residential_properties(taxRolls)) = <<Key001, Key002, Key003>>
    /\ KeysOf(get_roofing_permits(permitsDb)) = <<Key002>>
    /\ limit = NoLimit

SkippedRun == pc = "done" /\ skip_enrichment

\* C3 as stated: with skip_enrichment every lead returned has
\* enrichment_status "skipped".
C3_Original ==
    SkippedRun =>
        \A i \in 1..Len(ret) : ret[i].enrichment_status.tag = "skipped"

\* C3 amended: with skip_enrichment=True every lead returned has
\* data_quality "no_data", enrichment_status "mock" and
\* days_since_last_permit 9999; in the scenario exactly the leads 0001-001
\* and 0003-003 are returned.
C3_SkipEnrichment ==
    SkippedRun =>
        /\ \A i \in 1..Len(ret) :
              /\ ret[i].data_quality = "no_data"
              /\ ret[i].enrichment_status = [tag |-> "mock", detail |-> <<>>]
              /\ ret[i].days_since_last_permit = 9999
        /\ Scenario => KeysOf(ret) = <<Key001, Key003>>

C3_Witness == SkippedRun /\ Scenario /\ Len(ret) = 2 /\ Len(csv) = 1

FailedPage == \E i \in 1..Len(p_requested) : p_requested[i].status \notin 200..299

\* C7: a non-2xx page of either fetch ends the run with the error (exit code
\* 1): nothing is returned, the pages got so far are not used, no batch is
\* requested and no CSV is written; a CSV is written at most once, after the
\* last batch.
C7_FetchFailureIsFatal ==
    /\ FailedPage =>
          /\ p_pc = "raised"
          /\ pc \in {"fetch_properties", "fetch_permits", "failed"}
          /\ pc # "failed" => ENABLED FetchFailed
          /\ pc = "failed" => exit_code = <<1>>
          /\ ret = <<>> /\ roof_permits = <<>> /\ leads = <<>>
          /\ Len(calls) = 1 => properties = <<>>
          /\ "skip_trace_batch" \notin Range(calls) /\ b_pc = "idle"
          /\ b_requests = <<>>
          /\ csv = <<>>
    /\ pc = "failed" => FailedPage
    /\ Len(csv) <= 1
    /\ csv # <<>> =>
          /\ pc = "done" /\ b_pc = "returned"
          /\ Len(csv[1].rows) = Len(leads)
          /\ (b_client = "live" /\ api_key) =>
                Len(b_requests) = (Len(leads) + BatchSize - 1) \div BatchSize

C7_Witness ==
    /\ pc = "failed"
    /\ calls = <<"get_residential_properties", "get_roofing_permits">>
    /\ Len(p_requested) = 2
    /\ all_records # <<>>

Valid(r) == ~Falsy(r.block) /\ ~Falsy(r.lot)

\* The tax-roll records the property fetch gets.
Fetched ==
    IF limit # NoLimit /\ limit[1] > 0 THEN Take(taxRolls, limit[1]) ELSE taxRolls

NoProps == \A i \in 1..Len(Fetched) : ~Valid(Fetched[i])

NoLeads ==
    /\ ~NoProps
    /\ \A i \in 1..Len(Fetched) :
          Valid(Fetched[i]) =>
              \E j \in 1..Len(permitsDb) :
                  /\ Valid(permitsDb[j])
                  /\ format_block_lot(permitsDb[j].block, permitsDb[j].lot)
                       = format_block_lot(Fetched[i].block, Fetched[i].lot)

NothingDone ==
    /\ ret = <<>> /\ exit_code = <<0>>
    /\ b_pc = "idle" /\ b_requests = <<>>
    /\ csv = <<>>

\* C8: with no property found the run returns [] with exit code 0 before the
\* permit fetch; with no lead left it returns [] with exit code 0 before the
\* enrichment; in both cases no batch is requested and no CSV is written,
\* and [] is returned in no other case.
C8_EarlyTermination ==
    /\ NoProps => calls = <<"get_residential_properties">>
    /\ NoLeads => Len(calls) <= 2
    /\ pc = "done" =>
          /\ NoProps => NothingDone
          /\ NoLeads =>
                /\ NothingDone
                /\ calls = <<"get_residential_properties", "get_roofing_permits">>
          /\ ret = <<>> => (NoProps \/ NoLeads)

C8_Witness ==
    /\ pc = "done"
    /\ NoLeads
    /\ Len(properties) = 2
    /\ Len(roof_permits) = 2
    /\ NothingDone
====
